---- MODULE Spec2Model ----
(***************************************************************************)
(* A model of the portfolio canvas application: the PortfolioCanvas        *)
(* component (edit/draw modes, the three entity collections, drawingData,  *)
(* the content fetch and the layout export) and the DrawingCanvas          *)
(* component it mounts in edit mode (the raster, the stroke state and the  *)
(* asynchronous image loads of its initialDrawing effect).                 *)
(*                                                                         *)
(* Every React event handler is one atomic action: React flushes the state *)
(* updates of a discrete event and runs the effects of the resulting       *)
(* render before the next event is dispatched, so the re-render and the    *)
(* effects it triggers are part of the action.  The updates of a promise   *)
(* callback are rendered later, by the scheduler: until then the handlers  *)
(* of the last render go on seeing the state of that render.               *)
(***************************************************************************)
EXTENDS Integers, Sequences, FiniteSets, TLC

(***************************************************************************)
(* Bounds of the model.                                                    *)
(***************************************************************************)
\* The raster is a row of NumPixels pixels.
NumPixels == 1
\* Image loads of the initialDrawing effect that may be in flight at once.
MaxPending == 1
\* Date.now() ranges over 0..MaxClock.
MaxClock == 1
\* Largest size of the media and of the text collection.
MaxItems == 2
\* Pieces a pasted string is made of.
MaxChunks == 3

VARIABLES
    \* PortfolioCanvas state (PortfolioCanvas.tsx 42-59)
    isEditMode, isDrawMode, isEraser, brushColor, brushSize, selectedTextId,
    mediaItems, categories, textElements, drawingData,
    \* DrawingCanvas state (DrawingCanvas.tsx 24-26) and its canvas element
    context, isDrawing, raster, path, penPos, pendingImg,
    \* the page and its environment
    now, fetchState, serverDoc, download, savedState,
    \* the url field of the Add Media dialog (part_001 26), the destructive
    \* toasts shown so far, and the promise of navigator.clipboard.writeText
    url, errorToasts, clipboardWrite,
    \* the deployment: VITE_EDIT_MODE of the build (vite.config.ts 14) and the
    \* edit parameter of the address the page is opened at
    viteEditMode, editParam,
    \* whether the Add Media dialog is shown (PortfolioCanvas.tsx 58), the
    \* scale handed to the entities (59) next to the scale of the zoom
    \* viewport, and the textElements of the last committed render, which is
    \* what the handlers of that render see
    showAddMedia, currentScale, scale, renderedTexts

appVars == <<isEditMode, isDrawMode, isEraser, brushColor, brushSize, selectedTextId>>
storeVars == <<mediaItems, categories, textElements>>
canvasVars == <<context, isDrawing, raster, path, penPos, pendingImg>>
envVars == <<now, fetchState, serverDoc, download, savedState>>
auxVars == <<url, errorToasts, clipboardWrite>>
siteVars == <<viteEditMode, editParam>>
zoomVars == <<currentScale, scale>>
viewVars == <<showAddMedia, zoomVars, renderedTexts>>
vars == <<appVars, storeVars, drawingData, canvasVars, envVars, auxVars, siteVars, viewVars>>

(***************************************************************************)
(* The raster of the <canvas> element.                                     *)
(***************************************************************************)
Pixels == 1..NumPixels
Transparent == "transparent"
White == "#ffffff"
\* Values of the colour input of the draw toolbar; '#000000' is the default.
BrushColors == {"#000000"}
\* Values of the brush size slider (1..50, default 5), in px; a pixel of the
\* model's raster is a cell of 5 px.
BrushSizes == {5, 15}
PixelValues == {Transparent, White} \cup BrushColors
EmptyRaster == [q \in Pixels |-> Transparent]
NoPoint == 0

\* A data URL is modelled by the image it encodes; '' is the empty sequence.
EmptyString == <<>>
toDataURL(r) == <<r>>

\* The pixels a stroked path covers: the cells within lineWidth/2 of the path.
Footprint(pth, size) ==
    {q \in Pixels : \E s \in pth :
        (IF q >= s THEN q - s ELSE s - q) <= (size \div 2) \div 5}

\* context.stroke(): paints the whole current path with strokeStyle, under the
\* context's default compositing (source-over).
Stroke(r, pth, style, size) ==
    [q \in Pixels |-> IF q \in Footprint(pth, size) THEN style ELSE r[q]]

\* context.lineTo(x, y): a segment from the current point; without a current
\* point it only sets one.
Segment(a, b) ==
    IF a = NoPoint THEN {}
    ELSE {q \in Pixels : (a <= q /\ q <= b) \/ (b <= q /\ q <= a)}

\* ctx.drawImage(img, 0, 0): source-over, the image's transparent pixels
\* leave the surface as it is.
drawImage(r, img) ==
    [q \in Pixels |-> IF img[q] # Transparent THEN img[q] ELSE r[q]]

\* strokeStyle of draw (DrawingCanvas.tsx 72).
strokeStyle(eraser, colour) == IF eraser THEN White ELSE colour

\* The effect of DrawingCanvas on initialDrawing (DrawingCanvas.tsx 28-45):
\* a non-empty initialDrawing starts an image load; img.onload draws it later.
initialDrawingEffect(pend, dd) ==
    IF dd # EmptyString THEN pend \cup {dd[1]} ELSE pend

\* The re-render after drawingData went from old to new: the effect runs again
\* when the canvas is mounted and its dependency initialDrawing changed.
rerender(mounted, pend, old, new) ==
    IF mounted /\ new # old THEN initialDrawingEffect(pend, new) ELSE pend

\* DrawingCanvas is rendered in edit mode only (PortfolioCanvas.tsx 540).
Mounted == isEditMode

\* A canvas that takes pointer events whether draw mode is on or not.
pointerEvents_Always == "auto"

\* The canvas takes pointer events in draw mode only (DrawingCanvas.tsx 107-109).
pointerEvents == IF isDrawMode THEN "auto" ELSE "none"

\* A fresh DrawingCanvas after its first effect, and no DrawingCanvas.
MountCanvas(dd) ==
    /\ context' = "ctx"
    /\ isDrawing' = FALSE
    /\ raster' = EmptyRaster
    /\ path' = {}
    /\ penPos' = NoPoint
    /\ pendingImg' = initialDrawingEffect({}, dd)

UnmountCanvas ==
    /\ context' = "null"
    /\ isDrawing' = FALSE
    /\ raster' = EmptyRaster
    /\ path' = {}
    /\ penPos' = NoPoint
    /\ pendingImg' = {}

(***************************************************************************)
(* DrawingCanvas handlers.                                                 *)
(***************************************************************************)
startDrawing(p) ==
    IF ~isDrawMode \/ context = "null"
    THEN UNCHANGED vars
    ELSE /\ isDrawing' = TRUE
         /\ path' = {}
         /\ penPos' = p
         /\ UNCHANGED <<appVars, storeVars, drawingData, envVars, auxVars, siteVars, viewVars,
                        context, raster, pendingImg>>

\* A stopDrawing without the isDrawing test: it commits at every pointer-up
\* and pointer-leave.
stopDrawing_NoGuard ==
    /\ isDrawing' = FALSE
    /\ drawingData' = toDataURL(raster)
    /\ pendingImg' = rerender(Mounted, pendingImg, drawingData, drawingData')
    /\ Cardinality(pendingImg') <= MaxPending
    /\ UNCHANGED <<appVars, storeVars, envVars, auxVars, siteVars, viewVars, context, raster, path, penPos>>

draw(p) ==
    IF ~isDrawing \/ context = "null"
    THEN UNCHANGED vars
    ELSE /\ path' = path \cup Segment(penPos, p)
         /\ penPos' = p
         /\ raster' = Stroke(raster, path', strokeStyle(isEraser, brushColor), brushSize)
         /\ UNCHANGED <<appVars, storeVars, drawingData, envVars, auxVars, siteVars, viewVars,
                        context, isDrawing, pendingImg>>

stopDrawing ==
    IF ~isDrawing
    THEN UNCHANGED vars
    ELSE /\ isDrawing' = FALSE
         /\ drawingData' = toDataURL(raster)
         /\ pendingImg' = rerender(Mounted, pendingImg, drawingData, drawingData')
         /\ Cardinality(pendingImg') <= MaxPending
         /\ UNCHANGED <<appVars, storeVars, envVars, auxVars, siteVars, viewVars, context, raster, path, penPos>>

\* img.onload of an image load started by the effect.
imgOnload(img) ==
    /\ img \in pendingImg
    /\ pendingImg' = pendingImg \ {img}
    /\ raster' = drawImage(raster, img)
    /\ UNCHANGED <<appVars, storeVars, drawingData, envVars, auxVars, siteVars, viewVars,
                   context, isDrawing, path, penPos>>

\* The canvas element's bindings: a pointer event reaches a handler only when
\* the canvas is mounted and takes pointer events.
onMouseDown(p) ==
    IF Mounted /\ pointerEvents = "auto" THEN startDrawing(p) ELSE UNCHANGED vars
onMouseMove(p) ==
    IF Mounted /\ pointerEvents = "auto" THEN draw(p) ELSE UNCHANGED vars
onMouseUp ==
    IF Mounted /\ pointerEvents = "auto" THEN stopDrawing ELSE UNCHANGED vars
onMouseLeave ==
    IF Mounted /\ pointerEvents = "auto" THEN stopDrawing ELSE UNCHANGED vars

(***************************************************************************)
(* PortfolioCanvas: modes and the draw toolbar.                            *)
(***************************************************************************)
\* A toggle that changes edit mode only.
toggleEditMode_Only ==
    /\ isEditMode' = ~isEditMode
    /\ IF isEditMode' THEN MountCanvas(drawingData) ELSE UnmountCanvas
    /\ UNCHANGED <<isDrawMode, selectedTextId, isEraser, brushColor, brushSize,
                   storeVars, drawingData, envVars, auxVars, siteVars, viewVars>>

toggleEditMode ==
    /\ isEditMode' = ~isEditMode
    /\ isDrawMode' = FALSE
    /\ selectedTextId' = <<>>
    /\ IF isEditMode' THEN MountCanvas(drawingData) ELSE UnmountCanvas
    /\ UNCHANGED <<isEraser, brushColor, brushSize, storeVars, drawingData, envVars, auxVars, siteVars, viewVars>>

\* The Draw button, rendered in edit mode.
toggleDrawMode ==
    /\ isEditMode
    /\ isDrawMode' = ~isDrawMode
    /\ UNCHANGED <<isEditMode, isEraser, brushColor, brushSize, selectedTextId,
                   storeVars, drawingData, canvasVars, envVars, auxVars, siteVars, viewVars>>

\* The draw toolbar is rendered in edit mode with draw mode on.
DrawToolbarShown == isEditMode /\ isDrawMode

onEraserToggle ==
    /\ DrawToolbarShown
    /\ isEraser' = ~isEraser
    /\ UNCHANGED <<isEditMode, isDrawMode, brushColor, brushSize, selectedTextId,
                   storeVars, drawingData, canvasVars, envVars, auxVars, siteVars, viewVars>>

\* The Brush and the Eraser button of the draw toolbar: each has
\* onClick={onEraserToggle} (portfolioData.ts 366-383).
onBrushClick == onEraserToggle
onEraserClick == onEraserToggle

onBrushColorChange(c) ==
    /\ DrawToolbarShown
    /\ ~isEraser
    /\ brushColor' = c
    /\ UNCHANGED <<isEditMode, isDrawMode, isEraser, brushSize, selectedTextId,
                   storeVars, drawingData, canvasVars, envVars, auxVars, siteVars, viewVars>>

onBrushSizeChange(n) ==
    /\ DrawToolbarShown
    /\ brushSize' = n
    /\ UNCHANGED <<isEditMode, isDrawMode, isEraser, brushColor, selectedTextId,
                   storeVars, drawingData, canvasVars, envVars, auxVars, siteVars, viewVars>>

\* What the Clear Drawing button does to drawingData, the raster and the image
\* loads in flight: setDrawingData(''), and the re-render that follows.
ClearResult(mounted, dd, r, pend) ==
    [drawingData |-> EmptyString,
     raster |-> r,
     pendingImg |-> rerender(mounted, pend, dd, EmptyString)]

onClearDrawing ==
    /\ DrawToolbarShown
    /\ LET res == ClearResult(Mounted, drawingData, raster, pendingImg)
       IN /\ drawingData' = res.drawingData
          /\ raster' = res.raster
          /\ pendingImg' = res.pendingImg
    /\ UNCHANGED <<appVars, storeVars, envVars, auxVars, siteVars, viewVars, context, isDrawing, path, penPos>>

(***************************************************************************)
(* The entity collections.  A JavaScript object is a function from its own *)
(* keys to their values; an id is a pair <<prefix, number>> standing for   *)
(* the string `prefix-number`.                                             *)
(***************************************************************************)
\* The built-in content (portfolioData.ts): its first media item and its
\* first category label stand for the lists.
defaultMediaItems ==
    << [id |-> <<"motion", 1>>, type |-> "gdrive",
        driveId |-> <<"1RtaC8v_khkGuP-NSqkrgTF4GpSCJx8Bi">>,
        x |-> 50, y |-> 80, width |-> 300,
        title |-> "Motion Design 1",
        description |-> "Selected motion design piece from the original portfolio"] >>

defaultCategories ==
    << [id |-> <<"cat", 1>>, text |-> "Motion Design", x |-> 50, y |-> 40] >>

\* { ...obj, ...updates }
Merge(obj, updates) ==
    [k \in (DOMAIN obj) \cup (DOMAIN updates) |->
        IF k \in DOMAIN updates THEN updates[k] ELSE obj[k]]

\* An update that spreads in the wrong order, { ...updates, ...item }.
updateItems_SpreadOrder(items, id, updates) ==
    [i \in 1..Len(items) |->
        IF items[i].id = id THEN Merge(updates, items[i]) ELSE items[i]]

\* items.map((item) => (item.id === id ? { ...item, ...updates } : item))
updateItems(items, id, updates) ==
    [i \in 1..Len(items) |->
        IF items[i].id = id THEN Merge(items[i], updates) ELSE items[i]]

\* A delete whose filter keeps the wrong side, item.id === id.
deleteItems_Inverted(items, id) == SelectSeq(items, LAMBDA item : item.id = id)

\* items.filter((item) => item.id !== id)
deleteItems(items, id) == SelectSeq(items, LAMBDA item : item.id # id)

Ids(items) == {items[i].id : i \in 1..Len(items)}

\* TransformWrapper's initialScale, minScale and maxScale, in hundredths
\* (PortfolioCanvas.tsx 445-447).
initialScale == 100
minScale == 30
maxScale == 300

\* The scales the viewport is explored at, within minScale..maxScale.
ZoomScales == {minScale, 60, initialScale, 165, maxScale}

\* A wheel or pinch zoom of the TransformWrapper: the library sets its scale
\* and calls the onZoom prop, (ref) => setCurrentScale(ref.state.scale).
onZoom(s) ==
    /\ s \in ZoomScales
    /\ s # scale
    /\ scale' = s
    /\ currentScale' = scale'
    /\ UNCHANGED <<appVars, storeVars, drawingData, canvasVars, envVars, auxVars,
                   siteVars, showAddMedia, renderedTexts>>

\* The zoom buttons call zoomIn(), zoomOut() and resetTransform() of the
\* library, which animate the viewport to the next scale; the component
\* does nothing else in these handlers, and the library calls onZoom for
\* wheel and pinch zooming only.
zoomIn ==
    /\ scale' = IF \E s \in ZoomScales : s > scale
                THEN CHOOSE s \in ZoomScales :
                        s > scale /\ \A t \in ZoomScales : t > scale => s <= t
                ELSE scale
    /\ UNCHANGED <<appVars, storeVars, drawingData, canvasVars, envVars, auxVars,
                   siteVars, showAddMedia, currentScale, renderedTexts>>

zoomOut ==
    /\ scale' = IF \E s \in ZoomScales : s < scale
                THEN CHOOSE s \in ZoomScales :
                        s < scale /\ \A t \in ZoomScales : t < scale => s >= t
                ELSE scale
    /\ UNCHANGED <<appVars, storeVars, drawingData, canvasVars, envVars, auxVars,
                   siteVars, showAddMedia, currentScale, renderedTexts>>

resetTransform ==
    /\ scale' = initialScale
    /\ UNCHANGED <<appVars, storeVars, drawingData, canvasVars, envVars, auxVars,
                   siteVars, showAddMedia, currentScale, renderedTexts>>

\* Entity renderers get isEditMode && !isDrawMode (PortfolioCanvas.tsx 579, 591).
ItemEditMode == isEditMode /\ ~isDrawMode

\* Date.now() advances.
Tick ==
    /\ now < MaxClock
    /\ now' = now + 1
    /\ UNCHANGED <<appVars, storeVars, drawingData, canvasVars,
                   fetchState, serverDoc, download, savedState, auxVars, siteVars, viewVars>>

\* Where a drag can stop (d.x, d.y), and the style width a resize can end with.
DragStops == {[x |-> 50, y |-> 80]}
StyleWidths == {<<200, "px">>}
parseInt(s) == s[1]

(* Media items *)
updateMediaItem(id, updates) ==
    /\ mediaItems' = updateItems(mediaItems, id, updates)
    /\ UNCHANGED <<appVars, categories, textElements, drawingData, canvasVars, envVars, auxVars, siteVars, viewVars>>

deleteMediaItem(id) ==
    /\ mediaItems' = deleteItems(mediaItems, id)
    /\ UNCHANGED <<appVars, categories, textElements, drawingData, canvasVars, envVars, auxVars, siteVars, viewVars>>

addMediaItem(item) ==
    /\ Len(mediaItems) < MaxItems
    /\ LET newItem == Merge(item, [id |-> <<"media", now>>])
       IN mediaItems' = Append(mediaItems, newItem)
    /\ UNCHANGED <<appVars, categories, textElements, drawingData, canvasVars, envVars,
                   siteVars, zoomVars, renderedTexts>>

\* Strings that are matched or parsed are sequences of tokens, each token
\* standing for the characters it spells; no token but "/" holds a slash, no
\* token but "&" an ampersand, and the digit tokens are the only ones that
\* hold digits.
Scheme == <<"https:", "/", "/">>
DriveLit == <<"drive.google.com", "/", "file", "/", "d", "/">>
WatchLit == <<"youtube.com", "/", "watch", "?", "v", "=">>
ShortLit == <<"youtu.be", "/">>
VimeoLit == <<"vimeo.com", "/">>
EmbedPrefix == Scheme \o <<"www.youtube.com", "/", "embed", "/">>
PlayerPrefix == Scheme \o <<"player.vimeo.com", "/", "video", "/">>
DigitTokens == {"123", "1", "0"}

\* A character class: the tokens it lists, or all the others.
InClass(t, class) == (t \in class.tokens) # class.negated

\* A class that takes every character.
AnyChar == [negated |-> TRUE, tokens |-> {}]

\* [^\/], [^&] and \d
NotSlash == [negated |-> TRUE, tokens |-> {"/"}]
NotAmp == [negated |-> TRUE, tokens |-> {"&"}]
Digit == [negated |-> FALSE, tokens |-> DigitTokens]

\* The patterns are not anchored: a literal may start inside a longer host.
EndsWith(t, head) ==
    \/ t = head
    \/ t = "www.youtube.com" /\ head = "youtube.com"
    \/ t = "player.vimeo.com" /\ head = "vimeo.com"

LitAt(u, i, lit) ==
    /\ i + Len(lit) - 1 <= Len(u)
    /\ EndsWith(u[i], lit[1])
    /\ \A k \in 2..Len(lit) : u[i + k - 1] = lit[k]

\* The end of the greedy run class+ that starts at j.
RunEnd(u, j, class) ==
    CHOOSE e \in j..Len(u) :
        /\ \A k \in j..e : InClass(u[k], class)
        /\ e = Len(u) \/ ~InClass(u[e + 1], class)

\* String.prototype.match of (?:alt1|alt2|...)(class+): <<>> for null, else
\* the one-element tuple of the capture group of the leftmost match.
Match(u, alts, class) ==
    LET hits == {h \in (1..Len(u)) \X (1..Len(alts)) :
                    /\ LitAt(u, h[1], alts[h[2]])
                    /\ h[1] + Len(alts[h[2]]) <= Len(u)
                    /\ InClass(u[h[1] + Len(alts[h[2]])], class)}
    IN  IF hits = {} THEN <<>>
        ELSE LET h == CHOOSE h \in hits : \A g \in hits :
                          h[1] < g[1] \/ (h[1] = g[1] /\ h[2] <= g[2])
                 j == h[1] + Len(alts[h[2]])
             IN  <<SubSeq(u, j, RunEnd(u, j, class))>>

\* A dialog that looks for a YouTube link first.
processUrl_YouTubeFirst(inputUrl) ==
    LET driveMatch == Match(inputUrl, <<DriveLit>>, NotSlash)
        youtubeMatch == Match(inputUrl, <<WatchLit, ShortLit>>, NotAmp)
        vimeoMatch == Match(inputUrl, <<VimeoLit>>, Digit)
    IN  IF youtubeMatch # <<>>
        THEN [type |-> "youtube", src |-> EmbedPrefix \o youtubeMatch[1]]
        ELSE IF driveMatch # <<>>
        THEN [type |-> "gdrive", driveId |-> driveMatch[1]]
        ELSE IF vimeoMatch # <<>>
        THEN [type |-> "local", src |-> PlayerPrefix \o vimeoMatch[1]]
        ELSE [type |-> "local", src |-> inputUrl]

processUrl(inputUrl) ==
    LET driveMatch == Match(inputUrl, <<DriveLit>>, NotSlash)
        youtubeMatch == Match(inputUrl, <<WatchLit, ShortLit>>, NotAmp)
        vimeoMatch == Match(inputUrl, <<VimeoLit>>, Digit)
    IN  IF driveMatch # <<>>
        THEN [type |-> "gdrive", driveId |-> driveMatch[1]]
        ELSE IF youtubeMatch # <<>>
        THEN [type |-> "youtube", src |-> EmbedPrefix \o youtubeMatch[1]]
        ELSE IF vimeoMatch # <<>>
        THEN [type |-> "local", src |-> PlayerPrefix \o vimeoMatch[1]]
        ELSE [type |-> "local", src |-> inputUrl]

\* The URL parser on these strings (new URL(s), and the validity check of an
\* <input type="url">): an absolute URL needs a scheme, and an https URL a
\* host, which runs from the end of the slashes after the scheme to the next
\* "/", "?" or "#".  No string here holds a second scheme.
HostStart(u) ==
    IF \E k \in 2..Len(u) : u[k] # "/"
    THEN CHOOSE k \in 2..Len(u) : u[k] # "/" /\ \A m \in 2..(k - 1) : u[m] = "/"
    ELSE Len(u) + 1
InHost == [negated |-> TRUE, tokens |-> {"/", "?", "#"}]
HostEnd(u) ==
    LET j == HostStart(u)
    IN  IF j <= Len(u) /\ InClass(u[j], InHost) THEN RunEnd(u, j, InHost) ELSE j - 1
Host(u) == SubSeq(u, HostStart(u), HostEnd(u))

\* A host made of digits only is an IPv4 number and must stay below 2^32:
\* at most ten decimal digits here, where every number starts with 1.
RECURSIVE DigitCount(_)
DigitCount(h) ==
    IF h = <<>> THEN 0
    ELSE (IF Head(h) = "123" THEN 3 ELSE 1) + DigitCount(Tail(h))
HostValid(h) ==
    /\ h # <<>>
    /\ (\A k \in 1..Len(h) : InClass(h[k], Digit)) => (h[1] # "0" /\ DigitCount(h) <= 10)

IsAbsoluteUrl(u) ==
    /\ Len(u) >= 1
    /\ u[1] = "https:"
    /\ HostValid(Host(u))

\* The parts of a parsed URL after its host: the path up to the first "?" or
\* "#", the query between the first "?" and the first "#", the fragment.
IndexOf(u, from, stops) ==
    IF \E k \in from..Len(u) : u[k] \in stops
    THEN CHOOSE k \in from..Len(u) :
            u[k] \in stops /\ \A m \in from..(k - 1) : u[m] \notin stops
    ELSE Len(u) + 1
PathOf(u) == SubSeq(u, HostEnd(u) + 1, IndexOf(u, HostEnd(u) + 1, {"?", "#"}) - 1)
HashAt(u) == IndexOf(u, HostEnd(u) + 1, {"#"})
QueryOf(u) ==
    LET q == IndexOf(u, HostEnd(u) + 1, {"?", "#"})
    IN  IF q <= Len(u) /\ u[q] = "?" THEN SubSeq(u, q + 1, HashAt(u) - 1) ELSE <<>>
FragmentOf(u) == SubSeq(u, HashAt(u), Len(u))

\* URLSearchParams: the query is split at "&", empty pieces are skipped, and
\* each piece is split at its first "=".
RECURSIVE Split(_)
Split(q) ==
    LET i == IndexOf(q, 1, {"&"})
    IN  IF i > Len(q) THEN <<q>>
        ELSE <<SubSeq(q, 1, i - 1)>> \o Split(SubSeq(q, i + 1, Len(q)))
Pair(piece) ==
    LET i == IndexOf(piece, 1, {"="})
    IN  [name |-> SubSeq(piece, 1, i - 1), value |-> SubSeq(piece, i + 1, Len(piece))]
SearchParams(q) ==
    LET pieces == SelectSeq(Split(q), LAMBDA piece : piece # <<>>)
    IN  [k \in 1..Len(pieces) |-> Pair(pieces[k])]

\* searchParams.set(name, value) that only appends.
SearchParamsSet_Append(params, name, value) ==
    Append(params, [name |-> name, value |-> value])

\* searchParams.set(name, value): the first pair of that name takes the
\* value and the later ones are removed; without one, a pair is appended.
SearchParamsSet(params, name, value) ==
    LET named == {k \in 1..Len(params) : params[k].name = name}
    IN  IF named = {} THEN Append(params, [name |-> name, value |-> value])
        ELSE LET first == CHOOSE k \in named : \A m \in named : k <= m
                 kept == {k \in 1..Len(params) : k \notin named \/ k = first}
                 Nth(n) == CHOOSE k \in kept :
                               Cardinality({m \in kept : m < k}) = n - 1
             IN  [n \in 1..Cardinality(kept) |->
                    IF Nth(n) = first THEN [name |-> name, value |-> value]
                    ELSE params[Nth(n)]]

\* The form-urlencoded serialisation escapes what is not a letter, a digit
\* or one of * - . _
Escape(t) ==
    CASE t = "/" -> "%2F"
      [] t = "?" -> "%3F"
      [] t = "=" -> "%3D"
      [] t = "https:" -> "https%3A"
      [] OTHER -> t
Escaped(str) == [k \in 1..Len(str) |-> Escape(str[k])]
RECURSIVE Serialize(_)
Serialize(params) ==
    IF params = <<>> THEN <<>>
    ELSE Escaped(Head(params).name) \o <<"=">> \o Escaped(Head(params).value)
         \o (IF Len(params) > 1 THEN <<"&">> \o Serialize(Tail(params)) ELSE <<>>)

\* url.searchParams.set('autoplay', '0'); url.toString(), for a string that
\* parses (its host is not numeric wherever this is applied).
DisableAutoplay(src) ==
    LET pathname == PathOf(src)
        params == SearchParamsSet(SearchParams(QueryOf(src)), <<"autoplay">>, <<"0">>)
    IN  Scheme \o Host(src) \o (IF pathname = <<>> THEN <<"/">> ELSE pathname)
        \o <<"?">> \o Serialize(params) \o FragmentOf(src)

\* `https://drive.google.com/file/d/${driveId}/preview`
DrivePreview(driveId) == Scheme \o DriveLit \o driveId \o <<"/", "preview">>

\* A renderer that hands the stored source to the iframe as it is.
getMediaSrc_Stored(item) ==
    IF item.type = "gdrive" /\ "driveId" \in DOMAIN item /\ item.driveId # EmptyString
    THEN DrivePreview(item.driveId)
    ELSE item.src

getMediaSrc(item) ==
    IF item.type = "gdrive" /\ "driveId" \in DOMAIN item /\ item.driveId # EmptyString
    THEN DrivePreview(item.driveId)
    ELSE IF item.type = "youtube" /\ "src" \in DOMAIN item /\ item.src # EmptyString
    THEN IF IsAbsoluteUrl(item.src) THEN DisableAutoplay(item.src) ELSE item.src
    ELSE item.src

\* The url field of the dialog: onChange={(e) => setUrl(e.target.value)}.
\* The Add Media button of the control bar, rendered in edit mode.
openAddMedia ==
    /\ isEditMode
    /\ showAddMedia' = TRUE
    /\ UNCHANGED <<appVars, storeVars, drawingData, canvasVars, envVars, auxVars,
                   siteVars, zoomVars, renderedTexts>>

\* onClose of the dialog: its backdrop, its X and its Cancel button.
onClose ==
    /\ showAddMedia
    /\ showAddMedia' = FALSE
    /\ UNCHANGED <<appVars, storeVars, drawingData, canvasVars, envVars, auxVars,
                   siteVars, zoomVars, renderedTexts>>

\* The dialog renders its form only while it is open (part_001 31).
setUrl(value) ==
    /\ showAddMedia
    /\ url' = value
    /\ UNCHANGED <<appVars, storeVars, drawingData, canvasVars, envVars,
                   errorToasts, clipboardWrite, siteVars, viewVars>>

\* handleSubmit of the Add Media dialog, with title and description filled in.
handleSubmit ==
    IF url = EmptyString
    THEN /\ errorToasts' = errorToasts \cup {"Missing Fields"}
         /\ UNCHANGED <<appVars, storeVars, drawingData, canvasVars, envVars,
                        url, clipboardWrite, siteVars, viewVars>>
    ELSE /\ addMediaItem(Merge(processUrl(url),
                [title |-> "title", description |-> "description",
                 x |-> 2500, y |-> 2500, width |-> 300]))
         /\ url' = EmptyString
         /\ showAddMedia' = FALSE
         /\ UNCHANGED <<errorToasts, clipboardWrite>>

\* The Add Media button of the form, in the dialog opened from the edit-mode
\* control bar: the browser validates the type="url" field before it fires
\* the submit event, and shows its own message instead when the field holds
\* something that is not an absolute URL; an empty field is valid.
BrowserBlocks(value) == value # EmptyString /\ ~IsAbsoluteUrl(value)

formSubmit ==
    /\ showAddMedia
    /\ IF BrowserBlocks(url) THEN UNCHANGED vars ELSE handleSubmit

mediaOnDragStop(id, d) ==
    /\ ItemEditMode
    /\ id \in Ids(mediaItems)
    /\ updateMediaItem(id, [x |-> d.x, y |-> d.y])

mediaOnResizeStop(id, w, position) ==
    /\ ItemEditMode
    /\ id \in Ids(mediaItems)
    /\ updateMediaItem(id, [width |-> parseInt(w), x |-> position.x, y |-> position.y])

mediaOnDelete(id) ==
    /\ ItemEditMode
    /\ id \in Ids(mediaItems)
    /\ deleteMediaItem(id)

(* Category labels *)
\* A handler that filters the label out, as the delete handlers of the
\* other collections do.
updateCategory_Filter(id, updates) ==
    /\ categories' = deleteItems(categories, id)
    /\ UNCHANGED <<appVars, mediaItems, textElements, drawingData, canvasVars, envVars, auxVars, siteVars, viewVars>>

updateCategory(id, updates) ==
    /\ categories' = updateItems(categories, id, updates)
    /\ UNCHANGED <<appVars, mediaItems, textElements, drawingData, canvasVars, envVars, auxVars, siteVars, viewVars>>

categoryOnDragStop(id, d) ==
    /\ isEditMode
    /\ id \in Ids(categories)
    /\ updateCategory(id, [x |-> d.x, y |-> d.y])

\* The label's text is edited in place.
LabelTexts == {"Showreel"}
categoryOnTextChange(id, text) ==
    /\ isEditMode
    /\ id \in Ids(categories)
    /\ updateCategory(id, [text |-> text])

(* Text elements *)
\* setTextElements((prev) => prev.map(...)): the update runs over the state
\* and, in the render the event flushes, over what that render shows.
updateTextElement(id, updates) ==
    /\ textElements' = updateItems(textElements, id, updates)
    /\ renderedTexts' = updateItems(renderedTexts, id, updates)
    /\ UNCHANGED <<appVars, mediaItems, categories, drawingData, canvasVars, envVars,
                   auxVars, siteVars, showAddMedia, zoomVars>>

\* Math.random(), in thousandths.
RandomValues == {0, 999}

\* The spawn position of the implementation notes (IMPLEMENTATION_FIXES.md
\* 24-28), 2500 + (Math.random() * 3000 - 1500).
randomPos_Centred(rnd) == 2500 + ((rnd * 3000) \div 1000 - 1500)

\* const randomPos = () => 2000 + Math.random() * 3000
randomPos(rnd) == 2000 + (rnd * 3000) \div 1000

\* setTextElements([...textElements, newText]): the new array is built from
\* the textElements of the render the handler belongs to, and replaces the
\* state whatever updates are still waiting for a render.
addTextElement(r1, r2) ==
    /\ isEditMode
    /\ Len(renderedTexts) < MaxItems
    /\ LET newText == [id |-> <<"text", now>>,
                       text |-> "Double-click to edit",
                       x |-> randomPos(r1), y |-> randomPos(r2),
                       fontSize |-> 24, fontFamily |-> "Heebo, sans-serif",
                       color |-> "#000000",
                       bold |-> FALSE, italic |-> FALSE, underline |-> FALSE,
                       width |-> 300]
       IN /\ textElements' = Append(renderedTexts, newText)
          /\ renderedTexts' = Append(renderedTexts, newText)
    /\ UNCHANGED <<appVars, mediaItems, categories, drawingData, canvasVars, envVars,
                   auxVars, siteVars, showAddMedia, zoomVars>>

deleteTextElement(id) ==
    /\ textElements' = deleteItems(textElements, id)
    /\ renderedTexts' = deleteItems(renderedTexts, id)
    /\ selectedTextId' = IF selectedTextId = id THEN <<>> ELSE selectedTextId
    /\ UNCHANGED <<isEditMode, isDrawMode, isEraser, brushColor, brushSize,
                   mediaItems, categories, drawingData, canvasVars, envVars,
                   auxVars, siteVars, showAddMedia, zoomVars>>

textOnDelete(id) ==
    /\ ItemEditMode
    /\ id \in Ids(renderedTexts)
    /\ deleteTextElement(id)

textOnSelect(id) ==
    /\ ItemEditMode
    /\ id \in Ids(renderedTexts)
    /\ selectedTextId' = id
    /\ UNCHANGED <<isEditMode, isDrawMode, isEraser, brushColor, brushSize,
                   storeVars, drawingData, canvasVars, envVars, auxVars, siteVars, viewVars>>

textOnDragStop(id, d) ==
    /\ ItemEditMode
    /\ id \in Ids(renderedTexts)
    /\ updateTextElement(id, [x |-> d.x, y |-> d.y])

textOnResizeStop(id, w, position) ==
    /\ ItemEditMode
    /\ id \in Ids(renderedTexts)
    /\ updateTextElement(id, [width |-> parseInt(w), x |-> position.x, y |-> position.y])

\* selectedText (PortfolioCanvas.tsx 271): the first element with the selected id.
SelectedTexts == {i \in 1..Len(renderedTexts) : renderedTexts[i].id = selectedTextId}
selectedText == renderedTexts[CHOOSE i \in SelectedTexts : \A j \in SelectedTexts : i <= j]

\* The controls of the text style toolbar, shown for the selected element.
SliderValues == {40}
toolbarFontSize(value) ==
    /\ isEditMode /\ ~isDrawMode /\ SelectedTexts # {}
    /\ updateTextElement(selectedText.id, [fontSize |-> value])

toolbarBold ==
    /\ isEditMode /\ ~isDrawMode /\ SelectedTexts # {}
    /\ updateTextElement(selectedText.id, [bold |-> ~selectedText.bold])

\* handleBlur of a text element's textarea: the edited text, when it differs.
EditedTexts == {"Hello"}
handleBlur(id, text) ==
    /\ ItemEditMode
    /\ \E i \in 1..Len(renderedTexts) :
          renderedTexts[i].id = id /\ text # renderedTexts[i].text
    /\ updateTextElement(id, [text |-> text])

(***************************************************************************)
(* The persisted document.  A JSON value is [kind, val]; a document is a   *)
(* function from the keys it has to their values.                          *)
(***************************************************************************)
JsonArray(items) == [kind |-> "array", val |-> items]
JsonString(str) == [kind |-> "string", val |-> str]

\* The document of the earlier saveLayout, { mediaItems, categories }.
stringify_LayoutOnly(media, cats, texts, dd) ==
    [mediaItems |-> JsonArray(media),
     categories |-> JsonArray(cats)]

\* JSON.stringify({ mediaItems, categories, textElements, drawingData }):
\* the entity objects hold strings, finite numbers and booleans only, which
\* JSON keeps as they are.
stringify(media, cats, texts, dd) ==
    [mediaItems |-> JsonArray(media),
     categories |-> JsonArray(cats),
     textElements |-> JsonArray(texts),
     drawingData |-> JsonString(dd)]

\* data.key && Array.isArray(data.key); every array is truthy.
\* A loader that takes a document only as a whole.
IsArrayField_WholeDocument(data, key) ==
    /\ \A k \in {"mediaItems", "categories", "textElements"} :
          k \in DOMAIN data /\ data[k].kind = "array"
    /\ "drawingData" \in DOMAIN data /\ data["drawingData"].kind = "string"

IsArrayField(data, key) == key \in DOMAIN data /\ data[key].kind = "array"
\* typeof data.key === 'string'
IsStringField(data, key) == key \in DOMAIN data /\ data[key].kind = "string"

\* The .then((data) => ...) of the content fetch: what each collection
\* becomes, given what it was.
loadMediaItems(data, cur) ==
    IF IsArrayField(data, "mediaItems") THEN data["mediaItems"].val ELSE cur
loadCategories(data, cur) ==
    IF IsArrayField(data, "categories") THEN data["categories"].val ELSE cur
loadTextElements(data, cur) ==
    IF IsArrayField(data, "textElements") THEN data["textElements"].val ELSE cur
loadDrawingData(data, cur) ==
    IF IsStringField(data, "drawingData") THEN data["drawingData"].val ELSE cur

\* What /content/portfolio.json can answer: a failure, or a document.
OneStroke == [q \in Pixels |-> IF q = 1 THEN "#000000" ELSE Transparent]
DocText ==
    [id |-> <<"text", -1>>, text |-> "Welcome", x |-> 2600, y |-> 2600,
     fontSize |-> 24, fontFamily |-> "Heebo, sans-serif", color |-> "#000000",
     bold |-> FALSE, italic |-> FALSE, underline |-> FALSE, width |-> 300]
ServerDocs ==
    {[status |-> "error", body |-> <<>>],
     [status |-> "ok",
      body |-> stringify(defaultMediaItems, defaultCategories, <<DocText>>,
                         toDataURL(OneStroke))]}

\* The ways the load can fail: fetch rejects, res.ok is false, res.json()
\* rejects, and a body of null, on which data.mediaItems throws a TypeError
\* inside the handler; each ends in the catch.
LoadFailures == {"network", "http", "malformed", "null"}
FailedResponses == {[status |-> f, body |-> <<>>] : f \in LoadFailures}

\* Documents whose fields are, each on its own, absent, well formed or of
\* another JSON type.
JsonNull == [kind |-> "null", val |-> <<>>]
Absent == [kind |-> "absent", val |-> <<>>]
DocMedia ==
    << [id |-> <<"doc", 1>>, type |-> "local", src |-> <<"clip.mp4">>,
        x |-> 400, y |-> 80, width |-> 300,
        title |-> "Clip", description |-> "A clip"] >>
DocCategories ==
    << [id |-> <<"cat", 2>>, text |-> "Deep Fake", x |-> 50, y |-> 400] >>
FieldChoices ==
    [mediaItems : {Absent, JsonArray(DocMedia), JsonNull, JsonString(<<"x">>)},
     categories : {Absent, JsonArray(DocCategories), JsonNull},
     textElements : {Absent, JsonArray(<<DocText>>), JsonArray(<<>>), JsonNull},
     drawingData : {Absent, JsonString(toDataURL(OneStroke)),
                    JsonString(EmptyString), JsonNull, JsonArray(<<>>)}]
DocOf(f) == [k \in {k \in DOMAIN f : f[k] # Absent} |-> f[k]]
LoadDocs ==
    FailedResponses \cup {[status |-> "ok", body |-> DocOf(f)] : f \in FieldChoices}

fetchThen ==
    /\ fetchState = "pending"
    /\ serverDoc.status = "ok"
    /\ fetchState' = "done"
    /\ mediaItems' = loadMediaItems(serverDoc.body, mediaItems)
    /\ categories' = loadCategories(serverDoc.body, categories)
    /\ textElements' = loadTextElements(serverDoc.body, textElements)
    /\ drawingData' = loadDrawingData(serverDoc.body, drawingData)
    /\ pendingImg' = rerender(Mounted, pendingImg, drawingData, drawingData')
    /\ Cardinality(pendingImg') <= MaxPending
    /\ UNCHANGED <<appVars, context, isDrawing, raster, path, penPos,
                   now, serverDoc, download, savedState, auxVars, siteVars, viewVars>>

\* A catch that only swallows the error.
fetchCatch_Swallow ==
    /\ fetchState = "pending"
    /\ serverDoc.status # "ok"
    /\ fetchState' = "done"
    /\ UNCHANGED <<appVars, storeVars, drawingData, canvasVars,
                   now, serverDoc, download, savedState, auxVars, siteVars, viewVars>>

fetchCatch ==
    /\ fetchState = "pending"
    /\ serverDoc.status # "ok"
    /\ fetchState' = "done"
    /\ mediaItems' = defaultMediaItems
    /\ categories' = defaultCategories
    /\ UNCHANGED <<appVars, textElements, drawingData, canvasVars,
                   now, serverDoc, download, savedState, auxVars, siteVars, viewVars>>

\* The mount effect: edit mode from the build flag or the URL, then the fetch.
mountEffect(editFlag) ==
    /\ fetchState = "init"
    /\ fetchState' = "pending"
    /\ IF editFlag
       THEN isEditMode' = TRUE /\ MountCanvas(drawingData)
       ELSE UNCHANGED <<isEditMode, canvasVars>>
    /\ UNCHANGED <<isDrawMode, isEraser, brushColor, brushSize, selectedTextId,
                   storeVars, drawingData, now, serverDoc, download, savedState, auxVars, siteVars, viewVars>>

\* VITE_EDIT_MODE at build time ("unset": not in the environment) and
\* params.get('edit') at run time ("null": no edit parameter in the URL).
EnvValues == {"unset", "true", "false", "1"}
UrlEditValues == {"null", "true", "false", "1"}

\* vite.config.ts: editMode = process.env.VITE_EDIT_MODE === 'true', injected
\* as __EDIT_MODE__.
\* A flag that any value of the variable turns on.
editMode_AnyValue(env) == env # "unset"

editMode(env) == env = "true"

\* if (buildEdit || urlEdit === 'true')
editEnabled(buildEdit, urlEdit) == buildEdit \/ urlEdit = "true"

\* The page is opened: the mount effect under the build and the address.
pageLoad == mountEffect(editEnabled(editMode(viteEditMode), editParam))

\* The Save button: the document handed to the download, and (for the
\* round trip) the collections it was made from.
Collections == [mediaItems |-> mediaItems, categories |-> categories,
                textElements |-> textElements, drawingData |-> drawingData]

saveLayout ==
    /\ isEditMode
    /\ download' = <<stringify(mediaItems, categories, textElements, drawingData)>>
    /\ savedState' = <<Collections>>
    /\ UNCHANGED <<appVars, storeVars, drawingData, canvasVars,
                   now, fetchState, serverDoc, auxVars, siteVars, viewVars>>

\* saveLayout when a call of its try block throws (JSON.stringify, new Blob,
\* URL.createObjectURL, the anchor click): the catch shows 'Error Saving'.
saveLayoutCatch ==
    /\ isEditMode
    /\ errorToasts' = errorToasts \cup {"Error Saving"}
    /\ UNCHANGED <<appVars, storeVars, drawingData, canvasVars, envVars,
                   url, clipboardWrite, siteVars, viewVars>>

\* The Copy Public Link button.  Where navigator.clipboard is undefined (a
\* page not served over https) the call throws inside the try and the catch
\* shows 'Error Copying'; otherwise writeText returns a promise, to which
\* only a then-handler is attached.
ClipboardApis == {"undefined", "defined"}

copyPublicLink(clipboard) ==
    /\ isEditMode
    /\ IF clipboard = "undefined"
       THEN /\ errorToasts' = errorToasts \cup {"Error Copying"}
            /\ UNCHANGED clipboardWrite
       ELSE /\ clipboardWrite # "pending"
            /\ clipboardWrite' = "pending"
            /\ UNCHANGED errorToasts
    /\ UNCHANGED <<appVars, storeVars, drawingData, canvasVars, envVars, url, siteVars, viewVars>>

\* The promise of writeText is fulfilled: the 'Link Copied' toast.
clipboardThen ==
    /\ clipboardWrite = "pending"
    /\ clipboardWrite' = "resolved"
    /\ UNCHANGED <<appVars, storeVars, drawingData, canvasVars, envVars,
                   url, errorToasts, siteVars, viewVars>>

\* The promise of writeText is rejected (permission denied, document not
\* focused): no handler is attached for that.
clipboardRejected ==
    /\ clipboardWrite = "pending"
    /\ clipboardWrite' = "rejected"
    /\ UNCHANGED <<appVars, storeVars, drawingData, canvasVars, envVars,
                   url, errorToasts, siteVars, viewVars>>

(***************************************************************************)
(* The state after construction (PortfolioCanvas.tsx 42-59).               *)
(***************************************************************************)
FreshApp ==
    /\ isEditMode = FALSE
    /\ isDrawMode = FALSE
    /\ isEraser = FALSE
    /\ brushColor = "#000000"
    /\ brushSize = 5
    /\ selectedTextId = <<>>
    /\ mediaItems = defaultMediaItems
    /\ categories = defaultCategories
    /\ textElements = <<>>
    /\ drawingData = EmptyString
    /\ context = "null"
    /\ isDrawing = FALSE
    /\ raster = EmptyRaster
    /\ path = {}
    /\ penPos = NoPoint
    /\ pendingImg = {}
    /\ fetchState = "init"
    /\ errorToasts = {}
    /\ clipboardWrite = "none"
    /\ showAddMedia = FALSE
    /\ currentScale = initialScale
    /\ scale = initialScale
    /\ renderedTexts = <<>>

\* A production build (VITE_EDIT_MODE not set) opened at the public address.
Init ==
    /\ FreshApp
    /\ now = 0
    /\ serverDoc \in ServerDocs
    /\ download = <<>>
    /\ savedState = <<>>
    /\ viteEditMode = "unset"
    /\ editParam = "null"
    /\ url = EmptyString

\* The downloaded portfolio.json is committed to /public/content/ and the
\* site is opened again: a fresh application instance that fetches it.
deployAndReload ==
    /\ download # <<>>
    /\ serverDoc' = [status |-> "ok", body |-> download[1]]
    /\ isEditMode' = FALSE
    /\ isDrawMode' = FALSE
    /\ isEraser' = FALSE
    /\ brushColor' = "#000000"
    /\ brushSize' = 5
    /\ selectedTextId' = <<>>
    /\ mediaItems' = defaultMediaItems
    /\ categories' = defaultCategories
    /\ textElements' = <<>>
    /\ drawingData' = EmptyString
    /\ UnmountCanvas
    /\ fetchState' = "init"
    /\ url' = EmptyString
    /\ errorToasts' = {}
    /\ clipboardWrite' = "none"
    /\ showAddMedia' = FALSE
    /\ currentScale' = initialScale
    /\ scale' = initialScale
    /\ renderedTexts' = <<>>
    /\ UNCHANGED <<now, download, savedState, siteVars>>

(***************************************************************************)
(* Specifications.                                                         *)
(***************************************************************************)
\* The scheduler renders the updates the then-handler of the fetch has
\* queued: the component function runs again and its handlers see the
\* loaded textElements (PortfolioCanvas.tsx 51).
render ==
    /\ renderedTexts # textElements
    /\ renderedTexts' = textElements
    /\ UNCHANGED <<appVars, storeVars, drawingData, canvasVars, envVars, auxVars,
                   siteVars, showAddMedia, zoomVars>>

\* The mount effect runs right after the first render, before any event is
\* dispatched: events and callbacks come once the page has started.
Running == fetchState # "init"

\* The page has started and shows its latest state: where the user acts on
\* what is on the screen.
Started == Running /\ renderedTexts = textElements

\* The page starts, the content fetch settles, the Edit/View button.
StartNext ==
    \/ pageLoad
    \/ fetchThen
    \/ fetchCatch
    \/ render
    \/ Started /\ toggleEditMode

CanvasNext ==
    \/ Started /\ toggleDrawMode
    \/ Started /\ \E p \in Pixels : onMouseDown(p)
    \/ Started /\ \E p \in Pixels : onMouseMove(p)
    \/ Started /\ onMouseUp
    \/ Started /\ onMouseLeave
    \/ Started /\ \E img \in pendingImg : imgOnload(img)
    \/ Started /\ onBrushClick
    \/ Started /\ onEraserClick
    \/ Started /\ \E c \in BrushColors : onBrushColorChange(c)
    \/ Started /\ \E n \in BrushSizes : onBrushSizeChange(n)
    \/ Started /\ onClearDrawing

\* The draws of Math.random() the entity store is explored with.
SpawnDraws == {<<0, 999>>}
\* The address pasted into the Add Media dialog.
PastedUrls == {Scheme \o <<"www.youtube.com", "/", "watch", "?", "v", "=", "abc">>}

StoreNext ==
    \/ Started /\ Tick
    \/ Started /\ openAddMedia
    \/ Started /\ \E u \in PastedUrls : setUrl(u)
    \/ Started /\ url # EmptyString /\ formSubmit
    \/ Started /\ \E id \in Ids(mediaItems), d \in DragStops : mediaOnDragStop(id, d)
    \/ Started /\ \E id \in Ids(mediaItems) : mediaOnDelete(id)
    \/ Started /\ \E r \in SpawnDraws : addTextElement(r[1], r[2])
    \/ Started /\ \E id \in Ids(renderedTexts) : textOnDelete(id)
    \/ Started /\ \E id \in Ids(renderedTexts), d \in DragStops : textOnDragStop(id, d)

\* Dragging a category label.
CategoryNext ==
    /\ Started
    /\ \E id \in Ids(categories), d \in DragStops : categoryOnDragStop(id, d)

\* Selecting a text element.
SelectNext ==
    /\ Started
    /\ \E id \in Ids(renderedTexts) : textOnSelect(id)

\* The remaining controls of media items and text elements.
StyleNext ==
    \/ Started /\ \E id \in Ids(mediaItems), w \in StyleWidths, d \in DragStops :
                 mediaOnResizeStop(id, w, d)
    \/ Started /\ \E id \in Ids(renderedTexts), w \in StyleWidths, d \in DragStops :
                 textOnResizeStop(id, w, d)
    \/ Started /\ \E value \in SliderValues : toolbarFontSize(value)
    \/ Started /\ toolbarBold
    \/ Started /\ \E id \in Ids(renderedTexts), text \in EditedTexts : handleBlur(id, text)
    \/ Started /\ \E r1 \in RandomValues, r2 \in RandomValues : addTextElement(r1, r2)

\* The drawing surface: modes, the canvas, the content fetch.
DrawNext == StartNext \/ CanvasNext
DrawSpec == Init /\ [][DrawNext]_vars

\* The entity store: edit mode, the collections, the content fetch.
EntityNext == StartNext \/ StoreNext
StoreSpec == Init /\ [][EntityNext]_vars

Next ==
    \/ StartNext \/ CanvasNext \/ StoreNext \/ StyleNext
    \/ CategoryNext \/ SelectNext
    \/ Started /\ saveLayout
    \/ Started /\ saveLayoutCatch
    \/ Started /\ \E clipboard \in ClipboardApis : copyPublicLink(clipboard)
    \/ clipboardThen
    \/ clipboardRejected
    \/ Started /\ deployAndReload
    \/ Started /\ onClose
    \/ Started /\ \E id \in Ids(categories), text \in LabelTexts :
                 categoryOnTextChange(id, text)
    \/ Started /\ \E s \in ZoomScales : onZoom(s)
    \/ Started /\ zoomIn
    \/ Started /\ zoomOut
    \/ Started /\ resetTransform
Spec == Init /\ [][Next]_vars

\* The round trip of the persisted document: the layout is edited and saved
\* once, the saved file is deployed, and a fresh instance loads it.
RoundTripNext ==
    \/ download = <<>> /\ (EntityNext \/ CategoryNext)
    \/ download = <<>> /\ Started /\ saveLayout
    \/ Started /\ deployAndReload
    \/ download # <<>> /\ pageLoad
    \/ download # <<>> /\ (fetchThen \/ fetchCatch \/ render)
RoundTripSpec == Init /\ [][RoundTripNext]_vars

\* The start of the page under every build, address and outcome of the
\* request: a fresh instance over any of the load documents, with the edits
\* a user can make while the request is in flight.
LoadInit ==
    /\ FreshApp
    /\ now = 0
    /\ serverDoc \in LoadDocs
    /\ download = <<>>
    /\ savedState = <<>>
    /\ viteEditMode \in EnvValues
    /\ editParam \in UrlEditValues
    /\ url = EmptyString

LoadNext ==
    \/ pageLoad
    \/ fetchThen
    \/ fetchCatch
    \/ render
    \/ Started /\ toggleEditMode
    \/ Started /\ \E id \in Ids(mediaItems) : mediaOnDelete(id)
    \/ Started /\ \E id \in Ids(categories), d \in DragStops : categoryOnDragStop(id, d)
    \/ Started /\ \E r \in SpawnDraws : addTextElement(r[1], r[2])
LoadSpec == LoadInit /\ [][LoadNext]_vars

\* Saving and sharing, with their failures, around a few edits.
ExportNext ==
    \/ pageLoad
    \/ fetchThen
    \/ fetchCatch
    \/ render
    \/ Started /\ toggleEditMode
    \/ Started /\ \E r \in SpawnDraws : addTextElement(r[1], r[2])
    \/ Started /\ \E id \in Ids(mediaItems) : mediaOnDelete(id)
    \/ Started /\ saveLayout
    \/ Started /\ saveLayoutCatch
    \/ Started /\ \E clipboard \in ClipboardApis : copyPublicLink(clipboard)
    \/ clipboardThen
    \/ clipboardRejected
ExportSpec == Init /\ [][ExportNext]_vars

\* The strings pasted into the Add Media dialog: up to MaxChunks pieces, with
\* or without a scheme in front.
Chunks ==
    { DriveLit \o <<"abc">>,
      WatchLit \o <<"abc">>,
      <<"www.youtube.com", "/", "watch", "?", "v", "=", "abc">>,
      ShortLit \o <<"abc">>,
      VimeoLit,
      <<"abc">>, <<"123">>, <<"/">>, <<"&">>, <<"#">>,
      <<"?", "autoplay", "=", "1">> }
RECURSIVE Bodies(_)
Bodies(n) ==
    IF n = 0 THEN {<<>>}
    ELSE LET shorter == Bodies(n - 1)
         IN  shorter \cup {b \o c : b \in shorter, c \in Chunks}
UrlInputs == {p \o b : p \in {<<>>, Scheme}, b \in Bodies(MaxChunks)}

\* A loaded document with an embed that asks for autoplay, as the built-in
\* list has (portfolioData.ts 209).
AutoplayItem ==
    [id |-> <<"genvid", 1>>, type |-> "youtube",
     src |-> EmbedPrefix \o <<"z97tQM8zSrc", "?", "autoplay", "=", "1">>,
     x |-> 50, y |-> 1130, width |-> 300,
     title |-> "Generative Video 1",
     description |-> "Generative video exploring memes and pop culture"]
UrlDocs ==
    { [status |-> "error", body |-> <<>>],
      [status |-> "ok", body |-> [mediaItems |-> JsonArray(<<AutoplayItem>>)]] }

\* The Add Media dialog over every pasted string: the page is opened at
\* the editor's address, and one string is pasted into the empty field of
\* the dialog and submitted.
UrlInit ==
    /\ FreshApp
    /\ now = 0
    /\ serverDoc \in UrlDocs
    /\ download = <<>>
    /\ savedState = <<>>
    /\ viteEditMode = "unset"
    /\ editParam = "true"
    /\ url = EmptyString

NothingAdded == \A k \in 1..Len(mediaItems) : mediaItems[k].id[1] # "media"

UrlNext ==
    \/ pageLoad
    \/ fetchThen
    \/ fetchCatch
    \/ fetchState = "done" /\ url = EmptyString /\ NothingAdded /\ openAddMedia
    \/ fetchState = "done" /\ url = EmptyString /\ NothingAdded
          /\ \E u \in UrlInputs : setUrl(u)
    \/ fetchState = "done" /\ formSubmit
    \/ fetchState = "done" /\ \E id \in Ids(mediaItems), d \in DragStops :
                                 mediaOnDragStop(id, d)
UrlSpec == UrlInit /\ [][UrlNext]_vars

(***************************************************************************)
(* Properties of the drawing surface.                                      *)
(***************************************************************************)
PointerEvent ==
    \/ \E p \in Pixels : onMouseDown(p)
    \/ \E p \in Pixels : onMouseMove(p)
    \/ onMouseUp
    \/ onMouseLeave

\* C1: the Clear Drawing action leaves the raster fully empty and drawingData
\* the empty string, so that no pixel painted before it stays on the surface
\* (where a later stroke would commit it).
C1_ClearEmptiesRaster ==
    [][onClearDrawing => (raster' = EmptyRaster /\ drawingData' = EmptyString)]_vars

\* C2: drawingData is committed once per stroke, by the pointer-up or
\* pointer-leave that ends it: a pointer-move never changes drawingData, a
\* pointer-up or pointer-leave while Idle commits nothing, and one that ends a
\* stroke commits the serialized raster and leaves the surface Idle (so the
\* pointer-leave after a pointer-up commits nothing).
C2_CommitOncePerStroke ==
    [][/\ (\E p \in Pixels : onMouseMove(p)) => drawingData' = drawingData
       /\ ((onMouseUp \/ onMouseLeave) /\ ~isDrawing) => drawingData' = drawingData
       /\ ((onMouseUp \/ onMouseLeave) /\ isDrawing) =>
              (drawingData' = toDataURL(raster) /\ ~isDrawing')]_vars

\* A stroke was drawn and committed: the surface is Idle again and drawingData
\* is the serialized raster.
C2_Witness ==
    /\ isDrawMode /\ ~isDrawing /\ penPos # NoPoint
    /\ raster # EmptyRaster
    /\ drawingData = toDataURL(raster)

\* C3: a serialized raster is drawn onto the surface before any stroke is
\* accepted, and never after strokes have been made: whenever an image is
\* drawn, no stroke has been started on the surface yet.
C3_ImageDrawnBeforeStrokes ==
    [][(\E img \in pendingImg : imgOnload(img)) => penPos = NoPoint]_vars

C5_EraserClearsFootprint ==
    [][\A p \in Pixels :
          (isEraser /\ isDrawing /\ onMouseMove(p)) =>
              \A q \in Pixels :
                  raster'[q] = IF q \in Footprint(path', brushSize)
                               THEN Transparent ELSE raster[q]]_vars

\* C6: Clear Drawing twice in a row leaves the raster empty and drawingData
\* the empty string after each of the two calls, whatever the state before.
C6_ClearTwice ==
    DrawToolbarShown =>
        LET s1 == ClearResult(Mounted, drawingData, raster, pendingImg)
            s2 == ClearResult(Mounted, s1.drawingData, s1.raster, s1.pendingImg)
        IN /\ s1.raster = EmptyRaster /\ s1.drawingData = EmptyString
           /\ s2.raster = EmptyRaster /\ s2.drawingData = EmptyString

(***************************************************************************)
(* Properties of the entity store.                                         *)
(***************************************************************************)
\* An id no entity carries.
AbsentId == <<"none", 0>>
StoreIds == Ids(mediaItems) \cup Ids(categories) \cup Ids(textElements) \cup {AbsentId}

\* The partial records the handlers pass to update.
MediaPartials == {[x |-> 7, y |-> 9], [width |-> 200, x |-> 7, y |-> 9]}
CategoryPartials == {[x |-> 7, y |-> 9]}
TextPartials == {[width |-> 200, x |-> 7, y |-> 9], [bold |-> TRUE], [text |-> "Hello"]}

\* res is items with exactly the attributes named in updates changed on the
\* entities that carry id, and everything else as it was.
UpdateFrame(items, res, id, updates) ==
    /\ Len(res) = Len(items)
    /\ \A i \in 1..Len(items) :
          IF items[i].id = id
          THEN /\ DOMAIN res[i] = DOMAIN items[i] \cup DOMAIN updates
               /\ \A k \in DOMAIN updates : res[i][k] = updates[k]
               /\ \A k \in DOMAIN items[i] \ DOMAIN updates : res[i][k] = items[i][k]
          ELSE res[i] = items[i]
    /\ (id \notin Ids(items) => res = items)

\* C7: update(id, partial) on media, category and text entities changes exactly
\* the attributes named in the partial on the entity that has that id, and
\* leaves every other attribute of it, every other entity, and the order and
\* size of the collection unchanged; an id nothing carries changes nothing.
C7_UpdateFrame ==
    \A id \in StoreIds :
        /\ \A u \in MediaPartials :
              UpdateFrame(mediaItems, updateItems(mediaItems, id, u), id, u)
        /\ \A u \in CategoryPartials :
              UpdateFrame(categories, updateItems(categories, id, u), id, u)
        /\ \A u \in TextPartials :
              UpdateFrame(textElements, updateItems(textElements, id, u), id, u)

\* A drag moved one of two text elements and left the other where it was.
C7_Witness ==
    /\ Len(textElements) = 2
    /\ textElements[1].id # textElements[2].id
    /\ \E d \in DragStops : \E i, j \in 1..2 :
          /\ textElements[i].x = d.x /\ textElements[i].y = d.y
          /\ textElements[j].x # d.x

\* The indices of items that survive delete(id), and the j-th of them.
KeptIdx(items, id) == {i \in 1..Len(items) : items[i].id # id}
NthKept(items, id, j) ==
    CHOOSE i \in KeptIdx(items, id) :
        Cardinality({k \in KeptIdx(items, id) : k <= i}) = j

\* res is items without the entities that carry id, in the same order.
DeleteFrame(items, res, id) ==
    /\ Len(res) = Cardinality(KeptIdx(items, id))
    /\ \A j \in 1..Len(res) : res[j] = items[NthKept(items, id, j)]
    /\ id \notin Ids(res)
    /\ (id \notin Ids(items) => res = items)

\* C8: delete(id) removes the entity that has that id and leaves every other
\* entity, with its attributes and its place in the order, unchanged; an id
\* nothing carries changes nothing.
C8_DeleteFrame ==
    \A id \in StoreIds :
        /\ DeleteFrame(mediaItems, deleteItems(mediaItems, id), id)
        /\ DeleteFrame(textElements, deleteItems(textElements, id), id)

\* The default media item was deleted and an item added later is still there.
C8_Witness ==
    /\ fetchState = "done"
    /\ Len(mediaItems) >= 1
    /\ \A i \in 1..Len(mediaItems) : mediaItems[i].id[1] = "media"

\* C9: after any sequence of adds, no two entities of a collection have the
\* same id, however little time passes between the adds.
C9_UniqueIds ==
    /\ \A i, j \in 1..Len(mediaItems) :
          mediaItems[i].id = mediaItems[j].id => i = j
    /\ \A i, j \in 1..Len(textElements) :
          textElements[i].id = textElements[j].id => i = j

\* The saved document is the one being served and its fetch has completed.
Reloaded ==
    /\ download # <<>>
    /\ serverDoc.status = "ok"
    /\ serverDoc.body = download[1]
    /\ fetchState = "done"

\* C10: when the document written by save is deployed and loaded by a fresh
\* instance, the four collections after the load equal the four collections
\* at the time of the save.
C10_RoundTrip == Reloaded => Collections = savedState[1]

\* A fresh instance loaded a saved layout that holds a text element and a
\* media item the user added, and a drawing.
C10_Witness ==
    /\ Reloaded
    /\ \E i \in 1..Len(textElements) : textElements[i].id[2] >= 0
    /\ \E i \in 1..Len(mediaItems) : mediaItems[i].id[1] = "media"
    /\ drawingData # EmptyString


(***************************************************************************)
(* Properties of the content load and of the start-up flags.               *)
(***************************************************************************)
\* C11: when the content load fails (the request rejects, the response is
\* not OK, the body is not JSON, or the body is null), the step that settles
\* the request leaves mediaItems and categories at the built-in defaults,
\* marks the load as finished and shows no error.
C11_FailedLoadFallsBack ==
    [][(serverDoc.status \in LoadFailures /\ fetchState = "pending"
            /\ fetchState' # "pending")
       => /\ fetchState' = "done"
          /\ mediaItems' = defaultMediaItems
          /\ categories' = defaultCategories
          /\ errorToasts' = errorToasts
          /\ isEditMode' = isEditMode]_vars

\* A failed load has settled after a text element was added while the
\* request was in flight.
C11_Witness ==
    /\ serverDoc.status = "malformed"
    /\ fetchState = "done"
    /\ mediaItems = defaultMediaItems
    /\ categories = defaultCategories
    /\ textElements # <<>>

\* C12: when the load succeeds, each of the four collections is taken from
\* the document exactly when its own field is present with the expected
\* type (an array, or a string for the drawing), whatever the other fields
\* are; a collection whose field is absent or ill typed is left as it was,
\* which is its default when nothing has edited it.
WellFormed(data, key) ==
    /\ key \in DOMAIN data
    /\ data[key].kind = (IF key = "drawingData" THEN "string" ELSE "array")

C12_FieldsLoadIndependently ==
    [][(serverDoc.status = "ok" /\ fetchState = "pending" /\ fetchState' # "pending")
       => LET data == serverDoc.body
              Taken(key, old, new) ==
                  IF WellFormed(data, key) THEN new = data[key].val ELSE new = old
          IN  /\ Taken("mediaItems", mediaItems, mediaItems')
              /\ Taken("categories", categories, categories')
              /\ Taken("textElements", textElements, textElements')
              /\ Taken("drawingData", drawingData, drawingData')]_vars

\* A document without textElements and with an ill-typed categories field
\* has been loaded: media and drawing come from the document, the other two
\* collections are at their defaults.
C12_Witness ==
    /\ serverDoc.status = "ok"
    /\ fetchState = "done"
    /\ "textElements" \notin DOMAIN serverDoc.body
    /\ WellFormed(serverDoc.body, "mediaItems")
    /\ ~WellFormed(serverDoc.body, "categories")
    /\ "categories" \in DOMAIN serverDoc.body
    /\ mediaItems = DocMedia
    /\ drawingData = toDataURL(OneStroke)
    /\ categories = defaultCategories
    /\ textElements = <<>>

\* C13: at startup the edit parameter of the address takes precedence over
\* the build flag: whenever the address carries an edit parameter, the page
\* starts in edit mode exactly when that parameter is 'true', whatever the
\* build flag is.
C13_UrlFlagDecides ==
    [][(fetchState = "init" /\ fetchState' # "init" /\ editParam # "null")
       => isEditMode' = (editParam = "true")]_vars

\* C14: when neither flag enables edit mode (VITE_EDIT_MODE absent or not
\* 'true', and no edit=true in the address) the page starts in view mode,
\* and the only step that leaves view mode is the user's toggle.
NeitherFlag == viteEditMode # "true" /\ editParam # "true"

C14_ViewModeByDefault ==
    /\ [](NeitherFlag /\ fetchState = "init" => ~isEditMode)
    /\ [][(NeitherFlag /\ ~isEditMode /\ isEditMode') => toggleEditMode]_vars

\* A build with VITE_EDIT_MODE=false opened with ?edit=1 has loaded its
\* content and is in view mode.
C14_Witness ==
    /\ viteEditMode = "false"
    /\ editParam = "1"
    /\ fetchState = "done"
    /\ ~isEditMode

(***************************************************************************)
(* Properties of the Add Media dialog and of the rendered media source.    *)
(***************************************************************************)
MatchesDrive(u) == Match(u, <<DriveLit>>, NotSlash) # <<>>
MatchesYouTube(u) == Match(u, <<WatchLit, ShortLit>>, NotAmp) # <<>>
MatchesVimeo(u) == Match(u, <<VimeoLit>>, Digit) # <<>>
StartsWith(str, prefix) ==
    Len(str) >= Len(prefix) /\ SubSeq(str, 1, Len(prefix)) = prefix

\* The submit step that adds an item, and the item it adds.
Submits == Len(mediaItems') = Len(mediaItems) + 1 /\ url # EmptyString /\ url' = EmptyString
Added == mediaItems'[Len(mediaItems')]
AddedItems == {k \in 1..Len(mediaItems) : mediaItems[k].id[1] = "media"}

\* C15: the dialog tries the Drive pattern, then the YouTube pattern, then
\* the Vimeo pattern, and falls back to a direct link: a string is classified
\* by the first of these it matches, also when it matches later ones.
ClassifiedInOrder(u, r) ==
    IF MatchesDrive(u) THEN r.type = "gdrive" /\ "driveId" \in DOMAIN r
    ELSE IF MatchesYouTube(u) THEN r.type = "youtube" /\ StartsWith(r.src, EmbedPrefix)
    ELSE IF MatchesVimeo(u) THEN r.type = "local" /\ StartsWith(r.src, PlayerPrefix)
    ELSE r.type = "local" /\ r.src = u

C15_FirstPatternWins ==
    /\ [](ClassifiedInOrder(url, processUrl(url)))
    /\ [][Submits => ClassifiedInOrder(url, Added)]_vars

\* The string https://drive.google.com/file/d/abcyoutu.be/abc, which holds a
\* Drive link and a YouTube link, has been submitted and stored as a Drive
\* item.
C15_Witness ==
    \E k \in AddedItems :
        /\ mediaItems[k].type = "gdrive"
        /\ mediaItems[k].driveId = <<"abc", "youtu.be">>

\* C16: a string of the form drive.google.com/file/d/<id>/..., with or
\* without https:// in front, is classified as gdrive with driveId exactly
\* <id>, the characters between /d/ and the next slash.
DriveForm(u, s) ==
    /\ s = 1 \/ (s = Len(Scheme) + 1 /\ StartsWith(u, Scheme))
    /\ s + Len(DriveLit) <= Len(u)
    /\ SubSeq(u, s, s + Len(DriveLit) - 1) = DriveLit
    /\ u[s + Len(DriveLit)] # "/"
    /\ \E e \in (s + Len(DriveLit))..Len(u) : u[e] = "/"
DriveFormId(u, s) ==
    SubSeq(u, s + Len(DriveLit), IndexOf(u, s + Len(DriveLit), {"/"}) - 1)

C16_DriveIdExact ==
    /\ [](\A s \in {1, Len(Scheme) + 1} : DriveForm(url, s) =>
            processUrl(url) = [type |-> "gdrive", driveId |-> DriveFormId(url, s)])
    /\ [][\A s \in {1, Len(Scheme) + 1} : (Submits /\ DriveForm(url, s)) =>
            (Added.type = "gdrive" /\ Added.driveId = DriveFormId(url, s))]_vars

\* A Drive link whose id is abc123 has been submitted and stored.
C16_Witness ==
    \E k \in AddedItems :
        /\ mediaItems[k].type = "gdrive"
        /\ mediaItems[k].driveId = <<"abc", "123">>

\* The values of the autoplay parameters of a URL, and a URL whose only
\* autoplay parameter is autoplay=0.
AutoplayValues(u) ==
    LET params == SearchParams(QueryOf(u))
    IN  {params[k].value : k \in {m \in 1..Len(params) : params[m].name = <<"autoplay">>}}
AutoplayDisabled(u) == AutoplayValues(u) = {<<"0">>}
Contains(str, sub) ==
    \E i \in 1..(Len(str) - Len(sub) + 1) : SubSeq(str, i, i + Len(sub) - 1) = sub

\* A YouTube link (and no Drive link, which would win): what follows
\* watch?v= or youtu.be/ up to the next "&", and the video id at its front.
YouTubeLink(u) == MatchesYouTube(u) /\ ~MatchesDrive(u)
Captured(u) == Match(u, <<WatchLit, ShortLit>>, NotAmp)[1]
VideoId(u) == SubSeq(Captured(u), 1, IndexOf(Captured(u), 1, {"?", "#", "/"}) - 1)

\* C17 (as stated): for a YouTube link watch?v=<id> or youtu.be/<id> the
\* classification itself yields type youtube with an embed URL that contains
\* <id> and carries autoplay=0.
C17_ClassifiedWithAutoplayOff ==
    YouTubeLink(url) =>
        LET r == processUrl(url)
        IN  /\ r.type = "youtube"
            /\ Contains(r.src, VideoId(url))
            /\ AutoplayDisabled(r.src)

\* C17 (amended): for a YouTube link watch?v=<id> or youtu.be/<id> the
\* classification yields type youtube with the embed URL
\* https://www.youtube.com/embed/ followed by what was captured, which
\* contains <id> and gets no autoplay parameter from the dialog; the source
\* the item is rendered with contains <id> and carries autoplay=0.
YouTubeEmbed(u, r) ==
    LET captured == Captured(u)
        id == SubSeq(captured, 1, IndexOf(captured, 1, {"?", "#", "/"}) - 1)
        rendered == getMediaSrc(r)
    IN  /\ r.type = "youtube"
        /\ r.src = EmbedPrefix \o captured
        /\ Contains(r.src, id)
        /\ AutoplayValues(r.src) =
              AutoplayValues(Scheme \o <<"youtu.be", "/">> \o captured)
        /\ Contains(rendered, EmbedPrefix \o id)
        /\ AutoplayDisabled(rendered)

C17_EmbedRenderedWithAutoplayOff ==
    /\ [](YouTubeLink(url) => YouTubeEmbed(url, processUrl(url)))
    /\ [][(Submits /\ YouTubeLink(url)) => YouTubeEmbed(url, Added)]_vars

\* The link https://youtu.be/abc has been submitted: the stored source is
\* the bare embed URL and the rendered one ends in ?autoplay=0.
C17_Witness ==
    \E k \in AddedItems :
        /\ mediaItems[k].type = "youtube"
        /\ mediaItems[k].src = EmbedPrefix \o <<"abc">>
        /\ getMediaSrc(mediaItems[k]) = EmbedPrefix \o <<"abc", "?", "autoplay", "=", "0">>

\* C18: a string in the url field that matches none of the Drive, YouTube
\* and Vimeo patterns, a malformed URL included, is classified as a direct
\* link (type local) whose src is the string itself, and the form accepts
\* it.
C18_FallbackNeverRejects ==
    (isEditMode /\ url # EmptyString
        /\ ~MatchesDrive(url) /\ ~MatchesYouTube(url) /\ ~MatchesVimeo(url))
    => /\ processUrl(url) = [type |-> "local", src |-> url]
       /\ ~BrowserBlocks(url)

\* C19: every stored youtube item whose src is an absolute URL is rendered
\* with a source whose only autoplay parameter is autoplay=0, also when the
\* stored src says autoplay=1; and no step changes the src of a stored
\* youtube item.
YouTubeItems(items) ==
    {k \in 1..Len(items) : items[k].type = "youtube" /\ IsAbsoluteUrl(items[k].src)}

C20_FailuresAreShown ==
    [][/\ saveLayoutCatch =>
            ("Error Saving" \in errorToasts' /\ Collections' = Collections)
       /\ copyPublicLink("undefined") =>
            ("Error Copying" \in errorToasts' /\ Collections' = Collections)
       /\ (clipboardWrite = "pending" /\ clipboardWrite' = "rejected") =>
            ("Error Copying" \in errorToasts' /\ Collections' = Collections)]_vars
(***************************************************************************)
(* Spawning text elements.                                                 *)
(***************************************************************************)
\* The values of Math.random() the spawn is explored with: both ends of
\* [0, 1) and values inside.
SpawnValues == {0, 1, 500, 999}

SpawnNext ==
    \/ StartNext
    \/ Started /\ Tick
    \/ Started /\ \E r1 \in SpawnValues, r2 \in SpawnValues : addTextElement(r1, r2)
SpawnSpec == Init /\ [][SpawnNext]_vars

AddTextStep == \E r1 \in SpawnValues, r2 \in SpawnValues : addTextElement(r1, r2)

C27_StrokingOnlyInDrawMode == isDrawing => (isEditMode /\ isDrawMode)

\* C28: pressing Brush always results in isEraser false and pressing Eraser
\* always results in isEraser true, whatever the mode before.
C28_ButtonsSelectTool ==
    [][(onBrushClick => ~isEraser') /\ (onEraserClick => isEraser')]_vars

(***************************************************************************)
(* The modes and the selection.                                            *)
(***************************************************************************)
ModeNext ==
    \/ StartNext
    \/ Started /\ Tick
    \/ Started /\ toggleDrawMode
    \/ Started /\ \E r \in SpawnDraws : addTextElement(r[1], r[2])
    \/ Started /\ \E id \in Ids(renderedTexts) : textOnSelect(id)
    \/ Started /\ \E id \in Ids(renderedTexts) : textOnDelete(id)
ModeSpec == Init /\ [][ModeNext]_vars

\* C26: draw mode implies edit mode in every reachable state, and toggling
\* edit mode in either direction leaves draw mode off and no text selected.
C26_DrawImpliesEdit ==
    /\ [](isDrawMode => isEditMode)
    /\ [][toggleEditMode => (~isDrawMode' /\ selectedTextId' = <<>>)]_vars

\* Draw mode is on with a text element selected: the Edit/View button is
\* about to clear both.
C26_Witness == isEditMode /\ isDrawMode /\ selectedTextId # <<>>

(***************************************************************************)
(* Category labels next to the other entities.                             *)
(***************************************************************************)
LabelNext ==
    \/ StartNext
    \/ Started /\ toggleDrawMode
    \/ CategoryNext
    \/ Started /\ \E id \in Ids(categories), text \in LabelTexts :
                 categoryOnTextChange(id, text)
    \/ Started /\ \E id \in Ids(mediaItems) : mediaOnDelete(id)
    \/ Started /\ \E r \in SpawnDraws : addTextElement(r[1], r[2])
    \/ Started /\ \E id \in Ids(renderedTexts) : textOnDelete(id)
LabelSpec == Init /\ [][LabelNext]_vars

\* The ids of the labels, in order, and a label without its position and text.
CategoryIds == [i \in 1..Len(categories) |-> categories[i].id]
LabelRest(c) == [k \in (DOMAIN c) \ {"x", "y", "text"} |-> c[k]]

\* A step of the content load, which replaces the list by the document's.
LoadStep == fetchState' # fetchState

\* C23: no user operation in any mode removes a category label or changes
\* the category ids; only positions and texts of labels change.
C23_LabelsAreKept ==
    [][~LoadStep =>
         /\ CategoryIds' = CategoryIds
         /\ \A i \in 1..Len(categories) :
               LabelRest(categories'[i]) = LabelRest(categories[i])]_vars

\* A label was moved and renamed after the load, and the other collections
\* have lost an entity.
C23_Witness ==
    /\ fetchState = "done"
    /\ categories # <<>>
    /\ categories[1].y = 80 /\ categories[1].text = "Showreel"
    /\ mediaItems = <<>>

(***************************************************************************)
(* Edits made while the content request is in flight.                      *)
(***************************************************************************)
\* The request settles: the then-handler or the catch runs.
Settles == fetchState = "pending" /\ fetchState' = "done"

\* C25: the completion of the initial content load, success or failure,
\* never discards a user edit made before the fetch settled: a text element
\* the user added is still there, and a media item the user deleted stays
\* deleted.
C25_LoadKeepsEdits ==
    [][Settles =>
         /\ \A i \in 1..Len(textElements) :
               textElements[i].id[2] >= 0 =>
                   \E j \in 1..Len(textElements') : textElements'[j] = textElements[i]
         /\ mediaItems = <<>> => mediaItems' = <<>>]_vars

\* C29: selectedTextId is null or the id of an element that is in
\* textElements, after any interleaving of select, add, delete, mode toggle
\* and load completion.
C29_SelectionExists == selectedTextId = <<>> \/ selectedTextId \in Ids(textElements)

(***************************************************************************)
(* Handlers that run before the updates of the fetch are rendered.         *)
(***************************************************************************)
RaceNext ==
    \/ pageLoad
    \/ fetchThen
    \/ fetchCatch
    \/ render
    \/ Running /\ toggleEditMode
    \/ Running /\ Tick
    \/ Running /\ \E r \in SpawnDraws : addTextElement(r[1], r[2])
    \/ Running /\ \E id \in Ids(renderedTexts), d \in DragStops : textOnDragStop(id, d)
    \/ Running /\ \E id \in Ids(renderedTexts) : textOnDelete(id)
RaceSpec == Init /\ [][RaceNext]_vars

\* C30: every Add Text increases textElements by exactly one element and
\* keeps every prior element, also when other updates (another Add Text, an
\* update, a delete, the load completion) have not been rendered yet.
C30_AddTextKeepsAll ==
    [][AddTextStep =>
         /\ Len(textElements') = Len(textElements) + 1
         /\ \A i \in 1..Len(textElements) : textElements'[i] = textElements[i]]_vars

(***************************************************************************)
(* The zoom viewport.                                                      *)
(***************************************************************************)
ZoomNext ==
    \/ StartNext
    \/ Started /\ \E s \in ZoomScales : onZoom(s)
    \/ Started /\ zoomIn
    \/ Started /\ zoomOut
    \/ Started /\ resetTransform
ZoomSpec == Init /\ [][ZoomNext]_vars

\* C24: currentScale equals the actual scale of the viewport in every
\* state: after wheel zoom, after the zoom-in and zoom-out buttons, and
\* after reset, when both are 1.
C24_ScaleInSync == currentScale = scale

(***************************************************************************)
(* What a visitor can reach in view mode.                                  *)
(***************************************************************************)
\* The controls of both modes: the mode buttons, the drawing surface, the
\* entities, and the Add Media dialog.
ViewNext ==
    \/ StartNext
    \/ Started /\ toggleDrawMode
    \/ Started /\ \E p \in Pixels : onMouseDown(p)
    \/ Started /\ \E p \in Pixels : onMouseMove(p)
    \/ Started /\ onMouseUp
    \/ Started /\ \E id \in Ids(mediaItems), d \in DragStops : mediaOnDragStop(id, d)
    \/ Started /\ \E id \in Ids(mediaItems) : mediaOnDelete(id)
    \/ CategoryNext
    \/ Started /\ \E r \in SpawnDraws : addTextElement(r[1], r[2])
    \/ Started /\ \E id \in Ids(renderedTexts) : textOnSelect(id)
    \/ Started /\ \E id \in Ids(renderedTexts), text \in EditedTexts : handleBlur(id, text)
    \/ Started /\ openAddMedia
    \/ Started /\ onClose
    \/ Started /\ \E u \in PastedUrls : setUrl(u)
    \/ Started /\ url # EmptyString /\ formSubmit
ViewSpec == Init /\ [][ViewNext]_vars

\* C22: view mode is read-only: while edit mode is off, no user action
\* (click, drag, resize, double-click, pointer input on the drawing layer)
\* changes mediaItems, categories, textElements or drawingData.
C22_ViewModeReadOnly ==
    [][(~isEditMode /\ ~LoadStep) =>
         UNCHANGED <<mediaItems, categories, textElements, drawingData>>]_vars
====
